---- MODULE Spec2Model ----
(***************************************************************************)
(* imageplus: the markup builders (VirtualTag, Img, Source, Picture) and   *)
(* the orchestration of one CLI run (generateImages and its helpers).      *)
(*                                                                         *)
(* Two state machines share the pure definitions of the builders:          *)
(*   SpecTag  one builder object and the methods called on it;             *)
(*   Spec     one run of the CLI command.                                  *)
(* A JavaScript Map is a sequence of <<key, value>> pairs in insertion     *)
(* order; a JavaScript string is a TLA+ string; a string that the code     *)
(* parses (a size) is a sequence of one-character strings.                 *)
(***************************************************************************)
EXTENDS Integers, Sequences, FiniteSets, TLC

\* ---------------------------------------------------------------- bounds
MaxCalls == 4      \* method calls made on one builder after construction
MaxSrcset == 3     \* srcset descriptors held by one Source builder
MaxSizes == 2      \* entries of --sizes
MaxFormats == 2    \* entries of --formats
MaxTasks == 4      \* cells of the format x size matrix

\* ------------------------------------------------------------ JS helpers
RECURSIVE Join(_, _)
\* Array.prototype.join
Join(l, sep) ==
  IF l = <<>> THEN ""
  ELSE IF Len(l) = 1 THEN l[1]
  ELSE l[1] \o sep \o Join(Tail(l), sep)

\* Map.prototype.has
MapHas(m, k) == \E i \in DOMAIN m : m[i][1] = k

\* Map.prototype.get (undefined is modelled by the caller's default)
MapGet(m, k, dflt) ==
  IF MapHas(m, k) THEN m[CHOOSE i \in DOMAIN m : m[i][1] = k][2] ELSE dflt

\* A Map.set that re-inserts an existing key at the end (a plausible slip:
\* delete + set).
MapSetMoveToEnd(m, k, v) ==
  Append(SelectSeq(m, LAMBDA e : e[1] # k), <<k, v>>)

\* Map.prototype.set: an existing key keeps its position and takes the new
\* value, a new key is appended.
MapSet(m, k, v) ==
  IF MapHas(m, k)
    THEN [i \in DOMAIN m |-> IF m[i][1] = k THEN <<k, v>> ELSE m[i]]
    ELSE Append(m, <<k, v>>)

\* ------------------------------------------------------------ VirtualTag
\* One builder object.  Img and Source extend VirtualTag, so one record
\* shape carries the fields of the three classes; log is the history of the
\* setAttribute calls made on the object.
NewVirtualTag(name) ==
  [tagName |-> name, map |-> <<>>, styleMap |-> <<>>, srcset |-> <<>>,
   src |-> "", alt |-> "", type |-> "", log |-> <<>>]

setAttribute(t, key, value) ==
  [t EXCEPT !.map = MapSet(t.map, key, value),
            !.log = Append(t.log, <<key, value>>)]

\* The array l of build() once ">" is concatenated to it.
buildParts(t) ==
  <<"<" \o t.tagName>>
    \o [i \in DOMAIN t.map |-> t.map[i][1] \o "=\"" \o t.map[i][2] \o "\""]
    \o <<">">>

build(t) == Join(buildParts(t), " ")

\* ------------------------------------------------------------------- Img
ImgLoading == {"eager", "lazy"}
ImgDecoding == {"sync", "async", "auto"}

\* Img.constructor: the parameter properties src and alt, then the two
\* default attributes and an empty style map.
NewImg(src, alt) ==
  setAttribute(
    setAttribute([NewVirtualTag("img") EXCEPT !.src = src, !.alt = alt],
                 "loading", "eager"),
    "decoding", "sync")

\* path.join of a directory and a file name (both already normalised).
PathJoin(dir, name) == dir \o "/" \o name

\* A path is kept in its parsed form [dir, name, ext].
Basename(p) == p.name \o p.ext
Extname(p) == p.ext
\* path.basename(p, ext): the extension is dropped when it is ext
BasenameNoExt(p, ext) == IF p.ext = ext THEN p.name ELSE p.name \o p.ext

fromImagePath(imagePath, outputDir, alt) ==
  NewImg(PathJoin(outputDir, Basename(imagePath)), alt)

setLoading(t, loading) == setAttribute(t, "loading", loading)

setDeconding(t, deconding) == setAttribute(t, "decoding", deconding)

\* useLQIP when the engine delivers the buffer whose base64 text is b64.
useLQIP(t, b64) ==
  [t EXCEPT !.styleMap =
     MapSet(MapSet(MapSet(t.styleMap,
                          "background", "url(data:image/jpeg;base64," \o b64 \o ")"),
                   "background-size", "cover"),
            "background-repeat", "no-repeat")]

setStyle(t, key, value) == [t EXCEPT !.styleMap = MapSet(t.styleMap, key, value)]

\* The array values of Img.toString.
StyleValues(t) ==
  [i \in DOMAIN t.styleMap |-> t.styleMap[i][1] \o ": " \o t.styleMap[i][2] \o ";"]

\* Img.toString: the object after the call (the style attribute is set) ...
ImgToStringTag(t) == setAttribute(t, "style", Join(StyleValues(t), " "))

\* ... and the string it returns.
ImgToString(t) == build(ImgToStringTag(t))

\* ---------------------------------------------------------------- Source
NewSource(type) ==
  setAttribute([NewVirtualTag("source") EXCEPT !.type = type], "type", type)

addSrcsets(t, entries) == [t EXCEPT !.srcset = t.srcset \o entries]

setMaxWidth(t, maxWidth) ==
  setAttribute(t, "sizes",
               "(max-width: " \o maxWidth \o "px) 100vw, " \o maxWidth \o "px")

\* a toString that joins the descriptors with a bare comma
SourceToStringTagBareComma(t) == setAttribute(t, "srcset", Join(t.srcset, ","))

SourceToStringTag(t) == setAttribute(t, "srcset", Join(t.srcset, ", "))

SourceToString(t) == build(SourceToStringTag(t))

\* --------------------------------------------------------------- Picture
PictureToString(img, sources) ==
  "<picture>"
    \o Join([i \in DOMAIN sources |-> SourceToString(sources[i])], "")
    \o ImgToString(img)
    \o "</picture>"

\* ------------------------------------------------ numbers and their text
\* A JavaScript number that parseInt can return: NaN or an integer.
NaN == [nan |-> TRUE, val |-> 0]
Num(n) == [nan |-> FALSE, val |-> n]

DigitChars == <<"0", "1", "2", "3", "4", "5", "6", "7", "8", "9">>
IsDigit(c) == \E d \in DOMAIN DigitChars : DigitChars[d] = c
DigitVal(c) == (CHOOSE d \in DOMAIN DigitChars : DigitChars[d] = c) - 1

RECURSIVE SkipSpaces(_)
SkipSpaces(cs) ==
  IF cs # <<>> /\ cs[1] = " " THEN SkipSpaces(Tail(cs)) ELSE cs

RECURSIVE DigitsValue(_, _)
\* value of the longest prefix of digits of cs, read after the value acc
DigitsValue(cs, acc) ==
  IF cs # <<>> /\ IsDigit(cs[1])
    THEN DigitsValue(Tail(cs), 10 * acc + DigitVal(cs[1]))
    ELSE acc

\* parseInt(text, 10) of a text given as its characters: leading blanks, an
\* optional sign, then the longest run of digits; NaN when there is none.
ParseInt(cs) ==
  LET t == SkipSpaces(cs)
      signed == t # <<>> /\ t[1] \in {"-", "+"}
      d == IF signed THEN Tail(t) ELSE t
  IN IF d = <<>> \/ ~IsDigit(d[1]) THEN NaN
     ELSE IF signed /\ t[1] = "-" THEN Num(0 - DigitsValue(d, 0))
     ELSE Num(DigitsValue(d, 0))

RECURSIVE NatToString(_)
NatToString(n) ==
  IF n < 10 THEN DigitChars[n + 1]
  ELSE NatToString(n \div 10) \o DigitChars[(n % 10) + 1]

\* `${number}` in a template literal
NumToString(x) ==
  IF x.nan THEN "NaN"
  ELSE IF x.val < 0 THEN "-" \o NatToString(0 - x.val)
  ELSE NatToString(x.val)

\* the text whose characters are cs
CharsToString(cs) == Join(cs, "")

\* ------------------------------------------------------ the CLI options
\* levels[format] || 0
levels(f) ==
  CASE f = "avif" -> 4
    [] f = "webp" -> 3
    [] f = "png" -> 2
    [] f = "jpg" -> 1
    [] OTHER -> 0

RECURSIVE InsertByLevel(_, _)
\* f put after every entry whose level is not lower (a stable insertion)
InsertByLevel(sorted, f) ==
  IF sorted = <<>> THEN <<f>>
  ELSE IF levels(sorted[1]) >= levels(f)
    THEN <<sorted[1]>> \o InsertByLevel(Tail(sorted), f)
    ELSE <<f>> \o sorted

RECURSIVE StableSortByLevel(_)
StableSortByLevel(fs) ==
  IF fs = <<>> THEN <<>>
  ELSE InsertByLevel(StableSortByLevel(SubSeq(fs, 1, Len(fs) - 1)), fs[Len(fs)])

\* the coerce of --formats, after the split: Array.prototype.sort (stable)
\* by descending level
coerceFormats(raw) == StableSortByLevel(raw)

\* --------------------------------------------------------------- the run
\* property access on an object: undefined when the property is missing,
\* and `${undefined}` is the text "undefined"
Prop(obj, field) == IF field \in DOMAIN obj THEN obj[field] ELSE "undefined"

\* assertDirExists, by the kind of the path: what it returns or throws, and
\* the kind of the path afterwards.  fs.statSync throws on a missing path.
assertDirExists(path, kind) ==
  CASE kind = "missing" ->
         [threw |-> TRUE, err |-> "",
          message |-> "ENOENT: no such file or directory, stat '" \o path \o "'",
          kind |-> kind]
    [] kind = "file" ->
         [threw |-> FALSE, err |-> "error",
          message |-> "path '" \o path \o "' already exists and is not a directory",
          kind |-> kind]
    [] OTHER ->
         [threw |-> FALSE, err |-> "null", message |-> "", kind |-> kind]

\* generate(input), up to the call of the engine: the task and what it will
\* resolve with.
generate(input) ==
  LET imageName == BasenameNoExt(input.imagePath, Extname(input.imagePath)) \o "-"
                     \o NumToString(input.size) \o "." \o input.format
      outPath == PathJoin(input.outputDir, imageName)
  IN [input |-> input,
      outPath |-> outPath,
      output |-> [srcset |-> outPath \o " " \o NumToString(input.size) \o "w",
                  type |-> "image/" \o input.format],
      status |-> "pending",
      error |-> ""]

\* the thunks pushed on promises, in order: formats outer, sizes inner
Cells(formats, sizes) ==
  [k \in 1..(Len(formats) * Len(sizes)) |->
     [format |-> formats[((k - 1) \div Len(sizes)) + 1],
      size |-> sizes[((k - 1) % Len(sizes)) + 1]]]

Launch(imagePath, outputDir, formats, sizes) ==
  LET cells == Cells(formats, sizes)
  IN [k \in DOMAIN cells |->
        generate([imagePath |-> imagePath, outputDir |-> outputDir,
                  size |-> ParseInt(cells[k].size), format |-> cells[k].format])]

\* Promise.all: the join ends at the first rejection
PromiseAllDone(ts) ==
  \/ \A i \in DOMAIN ts : ts[i].status = "fulfilled"
  \/ \E i \in DOMAIN ts : ts[i].status = "rejected"

\* Promise.allSettled: the join ends when no task is pending
AllSettled(ts) == \A i \in DOMAIN ts : ts[i].status # "pending"

\* results in the order the tasks settled
ResultsByCompletion(ts, order) == [k \in DOMAIN order |-> ts[order[k]]]

\* the results array of Promise.allSettled: in the order of the input
Results(ts, order) == [k \in DOMAIN ts |-> ts[k]]

\* a loop over the results that skips the rejected ones
NoRejected(results) == 0

\* index of the first rejected result, 0 when there is none
FirstRejected(results) ==
  IF \E i \in DOMAIN results : results[i].status = "rejected"
    THEN CHOOSE i \in DOMAIN results :
           /\ results[i].status = "rejected"
           /\ \A j \in 1..(i - 1) : results[j].status # "rejected"
    ELSE 0

\* the Error returned for a rejected result: its message, and the pieces
\* the template puts together
RejectedError(result) ==
  LET reason == [error |-> result.error, input |-> result.input,
                 output |-> result.output]
      parts == <<"could not generate ", Prop(reason.output, "path"), ": ",
                 reason.error>>
  IN [parts |-> parts, message |-> Join(parts, "")]

RECURSIVE Grouped(_, _)
\* the Map grouped after the loop over the fulfilled results
Grouped(results, acc) ==
  IF results = <<>> THEN acc
  ELSE LET o == results[1].output
       IN Grouped(Tail(results),
                  MapSet(acc, o.type, Append(MapGet(acc, o.type, <<>>), o.srcset)))

\* the Source builders, one per entry of grouped
Sources(grouped, sizes) ==
  [i \in DOMAIN grouped |->
     setMaxWidth(addSrcsets(NewSource(grouped[i][1]), grouped[i][2]),
                 CharsToString(sizes[Len(sizes)]))]

\* ------------------------------------------------------------ the state
VARIABLES
  tag,        \* SpecTag: the builder object
  calls,      \* SpecTag: the methods called on it so far, <<name, argument>>
  out,        \* SpecTag: the string returned by the last toString()/build()
  outParts,   \* SpecTag: the array that string was joined from
  pc,         \* Spec: where the run is
  argv,       \* Spec: the options of the run, after coercion
  fsOut0,     \* Spec: kind of the output path when the run starts
  fsOut,      \* Spec: kind of the output path now
  files,      \* Spec: paths of the files written under the output directory
  tasks,      \* Spec: the generation tasks, in the order they were launched
  completion, \* Spec: indices of the settled tasks, in the order they settled
  sources,    \* Spec: the Source builders made from the grouped results
  img,        \* Spec: the Img builder
  steps,      \* Spec: outcome of the directory check, the copy and the LQIP
  html,       \* Spec: content of the HTML file, "" while not written
  ret,        \* Spec: how generateImages ended
  exit        \* Spec: how the process ended

tagVars == <<tag, calls, out, outParts>>
runVars == <<pc, argv, fsOut0, fsOut, files, tasks, completion, sources, img,
             steps, html, ret, exit>>
vars == <<tag, calls, out, outParts, pc, argv, fsOut0, fsOut, files, tasks,
          completion, sources, img, steps, html, ret, exit>>

NoTag == NewVirtualTag("")

\* ------------------------------------------- SpecTag: one builder object
TagKeys == {"id", "class", "title"}
TagValues == {"x", "y"}
SrcPaths == {"out/photo.png"}
AltTexts == {"a photo"}
MimeTypes == {"image/webp", "image/avif"}
StyleKeys == {"color", "background"}
StyleValuesIn == {"red"}
Base64Texts == {"QUJD"}
SrcsetEntries == {"a.webp 240w", "b.webp 640w"}
MaxWidths == {"640", "240"}

RunIdle ==
  /\ pc = "idle"
  /\ argv = [sizes |-> <<>>, formats |-> <<>>]
  /\ fsOut0 = "dir" /\ fsOut = "dir"
  /\ files = {}
  /\ tasks = <<>> /\ completion = <<>>
  /\ sources = <<>> /\ img = NoTag
  /\ steps = [dir |-> "none", copy |-> "none", lqip |-> "none"]
  /\ html = ""
  /\ ret = [kind |-> "pending"]
  /\ exit = [done |-> FALSE]

TagInit ==
  /\ tag \in {NewVirtualTag("div")}
             \cup {NewImg(s, a) : s \in SrcPaths, a \in AltTexts}
             \cup {NewSource(ty) : ty \in MimeTypes}
  /\ calls = <<>>
  /\ out = ""
  /\ outParts = <<>>
  /\ RunIdle

CanCall == Len(calls) < MaxCalls

\* a subclass-style caller of the protected VirtualTag.setAttribute
TagSetAttribute(k, v) ==
  /\ tag.tagName = "div" /\ CanCall
  /\ tag' = setAttribute(tag, k, v)
  /\ calls' = Append(calls, <<"setAttribute", <<k, v>>>>)
  /\ UNCHANGED <<out, outParts, runVars>>

TagBuild ==
  /\ tag.tagName = "div" /\ CanCall
  /\ out' = build(tag)
  /\ outParts' = buildParts(tag)
  /\ calls' = Append(calls, <<"build", "">>)
  /\ UNCHANGED <<tag, runVars>>

ImgSetLoading(l) ==
  /\ tag.tagName = "img" /\ CanCall
  /\ tag' = setLoading(tag, l)
  /\ calls' = Append(calls, <<"setLoading", l>>)
  /\ UNCHANGED <<out, outParts, runVars>>

ImgSetDeconding(d) ==
  /\ tag.tagName = "img" /\ CanCall
  /\ tag' = setDeconding(tag, d)
  /\ calls' = Append(calls, <<"setDeconding", d>>)
  /\ UNCHANGED <<out, outParts, runVars>>

ImgSetStyle(k, v) ==
  /\ tag.tagName = "img" /\ CanCall
  /\ tag' = setStyle(tag, k, v)
  /\ calls' = Append(calls, <<"setStyle", <<k, v>>>>)
  /\ UNCHANGED <<out, outParts, runVars>>

\* the engine resolves with a buffer, or rejects and the map is untouched
ImgUseLQIP(ok, b64) ==
  /\ tag.tagName = "img" /\ CanCall
  /\ tag' = IF ok THEN useLQIP(tag, b64) ELSE tag
  /\ calls' = Append(calls, <<"useLQIP", IF ok THEN b64 ELSE "rejected">>)
  /\ UNCHANGED <<out, outParts, runVars>>

ImgToStringCall ==
  /\ tag.tagName = "img" /\ CanCall
  /\ tag' = ImgToStringTag(tag)
  /\ out' = ImgToString(tag)
  /\ outParts' = buildParts(ImgToStringTag(tag))
  /\ calls' = Append(calls, <<"toString", "">>)
  /\ UNCHANGED runVars

SourceAddSrcsets(entries) ==
  /\ tag.tagName = "source" /\ CanCall
  /\ Len(tag.srcset) + Len(entries) <= MaxSrcset
  /\ tag' = addSrcsets(tag, entries)
  /\ calls' = Append(calls, <<"addSrcsets", entries>>)
  /\ UNCHANGED <<out, outParts, runVars>>

SourceSetMaxWidth(w) ==
  /\ tag.tagName = "source" /\ CanCall
  /\ tag' = setMaxWidth(tag, w)
  /\ calls' = Append(calls, <<"setMaxWidth", w>>)
  /\ UNCHANGED <<out, outParts, runVars>>

SourceToStringCall ==
  /\ tag.tagName = "source" /\ CanCall
  /\ tag' = SourceToStringTag(tag)
  /\ out' = SourceToString(tag)
  /\ outParts' = buildParts(SourceToStringTag(tag))
  /\ calls' = Append(calls, <<"toString", "">>)
  /\ UNCHANGED runVars

SeqsUpTo(S, n) == UNION {[1..k -> S] : k \in 1..n}

TagNext ==
  \/ \E k \in TagKeys, v \in TagValues : TagSetAttribute(k, v)
  \/ TagBuild
  \/ \E l \in ImgLoading : ImgSetLoading(l)
  \/ \E d \in ImgDecoding : ImgSetDeconding(d)
  \/ \E k \in StyleKeys, v \in StyleValuesIn : ImgSetStyle(k, v)
  \/ \E ok \in BOOLEAN, b \in Base64Texts : ImgUseLQIP(ok, b)
  \/ ImgToStringCall
  \/ \E e \in SeqsUpTo(SrcsetEntries, 2) : SourceAddSrcsets(e)
  \/ \E w \in MaxWidths : SourceSetMaxWidth(w)
  \/ SourceToStringCall

SpecTag == TagInit /\ [][TagNext]_vars

\* -------------------------------------------- Spec: one run of the command
ImagePaths == {[dir |-> "in", name |-> "photo", ext |-> ".png"]}
OutputDirs == {"out"}
SizeInputs == {<<"1", "0", "0">>, <<"2", "0", "0">>, <<"1", "0", "0", "p", "x">>}
FormatInputs == {"jpg", "avif", "gif"}
EngineErrors == {"Error: unsupported image format"}
PathKinds == {"dir", "missing", "file"}

TagIdle == tag = NoTag /\ calls = <<>> /\ out = "" /\ outParts = <<>>

\* The options as the handler receives them: --sizes split, --formats split
\* and sorted by coerce.
RunInit ==
  /\ TagIdle
  /\ pc = "start"
  /\ \E image \in ImagePaths, alt \in AltTexts, output \in OutputDirs,
        sz \in SeqsUpTo(SizeInputs, MaxSizes),
        raw \in SeqsUpTo(FormatInputs, MaxFormats),
        lazy \in BOOLEAN, async \in BOOLEAN, lqip \in BOOLEAN :
       /\ Len(sz) * Len(raw) <= MaxTasks
       /\ argv = [image |-> image, alt |-> alt, output |-> output,
                  sizes |-> sz, formats |-> coerceFormats(raw),
                  lazy |-> lazy, async |-> async, LQIP |-> lqip]
  /\ fsOut0 \in PathKinds
  /\ fsOut = fsOut0
  /\ files = {}
  /\ tasks = <<>> /\ completion = <<>>
  /\ sources = <<>> /\ img = NoTag
  /\ steps = [dir |-> "none", copy |-> "none", lqip |-> "none"]
  /\ html = ""
  /\ ret = [kind |-> "pending"]
  /\ exit = [done |-> FALSE]

fallbackPath == PathJoin(argv.output, Basename(argv.image))
htmlFilePath ==
  PathJoin(argv.output, BasenameNoExt(argv.image, Extname(argv.image)) \o ".html")

\* generateImages up to its first await: the directory check, then every
\* thunk is built and called.
GenerateImagesStart ==
  /\ pc = "start"
  /\ LET r == assertDirExists(argv.output, fsOut)
     IN /\ fsOut' = r.kind
        /\ IF r.threw
             THEN /\ pc' = "thrown"
                  /\ ret' = [kind |-> "thrown", message |-> r.message]
                  /\ steps' = [steps EXCEPT !.dir = "threw"]
                  /\ tasks' = tasks
           ELSE IF r.err # "null"
             THEN /\ pc' = "returned"
                  /\ ret' = [kind |-> "error", from |-> "dir",
                             message |-> r.message, parts |-> <<r.message>>]
                  /\ steps' = [steps EXCEPT !.dir = "error"]
                  /\ tasks' = tasks
           ELSE /\ pc' = "await"
                /\ ret' = ret
                /\ steps' = [steps EXCEPT !.dir = "ok"]
                /\ tasks' = Launch(argv.image, argv.output, argv.formats, argv.sizes)
  /\ UNCHANGED <<tagVars, argv, fsOut0, files, completion, sources, img, html, exit>>

\* The engine settles task i: toFile wrote the file, or failed with cause e.
TaskSettle(i, ok, e) ==
  /\ i \in DOMAIN tasks
  /\ tasks[i].status = "pending"
  /\ tasks' = [tasks EXCEPT ![i].status = IF ok THEN "fulfilled" ELSE "rejected",
                            ![i].error = IF ok THEN "" ELSE e]
  /\ completion' = Append(completion, i)
  /\ files' = IF ok THEN files \cup {tasks[i].outPath} ELSE files
  /\ UNCHANGED <<tagVars, pc, argv, fsOut0, fsOut, sources, img, steps, html, ret, exit>>

\* generateImages resumes after the join: the loop over the results, the
\* Source builders, and the call of copyImage.
GenerateImagesJoined ==
  /\ pc = "await"
  /\ AllSettled(tasks)
  /\ LET results == Results(tasks, completion)
         bad == FirstRejected(results)
     IN IF bad # 0
          THEN /\ pc' = "returned"
               /\ ret' = [kind |-> "error", from |-> "task"] @@ RejectedError(results[bad])
               /\ sources' = sources
          ELSE /\ pc' = "copy"
               /\ ret' = ret
               /\ sources' = Sources(Grouped(results, <<>>), argv.sizes)
  /\ UNCHANGED <<tagVars, argv, fsOut0, fsOut, files, tasks, completion, img, steps,
                 html, exit>>

\* the Img builder with the loading and decoding the options ask for
BuildImg ==
  LET i0 == fromImagePath(argv.image, argv.output, argv.alt)
      i1 == IF argv.lazy THEN setLoading(i0, "lazy") ELSE i0
  IN IF argv.async THEN setDeconding(i1, "async") ELSE i1

\* the end of generateImages: the picture is serialized and written
WriteHtml(image, written) ==
  /\ html' = PictureToString(image, sources)
  /\ files' = written \cup {htmlFilePath}
  /\ ret' = [kind |-> "null"]
  /\ pc' = "returned"

\* copyImage settles; on success generateImages goes on to the Img builder
\* and either awaits useLQIP or writes the HTML file.
CopySettle(ok) ==
  /\ pc = "copy"
  /\ IF ~ok
       THEN /\ pc' = "thrown"
            /\ ret' = [kind |-> "thrown", message |-> "copyFile failed"]
            /\ steps' = [steps EXCEPT !.copy = "failed"]
            /\ UNCHANGED <<img, html, files>>
     ELSE IF argv.LQIP
       THEN /\ pc' = "lqip"
            /\ img' = BuildImg
            /\ steps' = [steps EXCEPT !.copy = "ok"]
            /\ files' = files \cup {fallbackPath}
            /\ UNCHANGED <<html, ret>>
     ELSE /\ img' = BuildImg
          /\ steps' = [steps EXCEPT !.copy = "ok"]
          /\ WriteHtml(BuildImg, files \cup {fallbackPath})
  /\ UNCHANGED <<tagVars, argv, fsOut0, fsOut, tasks, completion, sources, exit>>

\* useLQIP settles; its rejection is not caught and ends generateImages.
LqipSettle(ok, b64) ==
  /\ pc = "lqip"
  /\ IF ok
       THEN /\ img' = useLQIP(img, b64)
            /\ steps' = [steps EXCEPT !.lqip = "ok"]
            /\ WriteHtml(useLQIP(img, b64), files)
       ELSE /\ pc' = "thrown"
            /\ ret' = [kind |-> "thrown", message |-> "useLQIP failed"]
            /\ steps' = [steps EXCEPT !.lqip = "failed"]
            /\ UNCHANGED <<img, html, files>>
  /\ UNCHANGED <<tagVars, argv, fsOut0, fsOut, tasks, completion, sources, exit>>

\* The command handler awaits generateImages and drops what it returns; a
\* rejection reaches the runtime, which reports it and exits with 1.
HandlerEnd ==
  /\ pc \in {"returned", "thrown"}
  /\ pc' = "exited"
  /\ exit' = IF ret.kind = "thrown"
               THEN [done |-> TRUE, code |-> 1, message |-> ret.message]
               ELSE [done |-> TRUE, code |-> 0, message |-> ""]
  /\ UNCHANGED <<tagVars, argv, fsOut0, fsOut, files, tasks, completion, sources, img,
                 steps, html, ret>>

Next ==
  \/ GenerateImagesStart
  \/ \E i \in 1..MaxTasks, ok \in BOOLEAN, e \in EngineErrors : TaskSettle(i, ok, e)
  \/ GenerateImagesJoined
  \/ \E ok \in BOOLEAN : CopySettle(ok)
  \/ \E ok \in BOOLEAN, b \in Base64Texts : LqipSettle(ok, b)
  \/ HandlerEnd

Spec == RunInit /\ [][Next]_vars

\* ------------------------------------------------- claims on the builders
RECURSIVE FirstKeys(_)
\* the distinct keys of a call history, in the order of their first call
FirstKeys(log) ==
  IF log = <<>> THEN <<>>
  ELSE LET k == log[1][1]
       IN <<k>> \o FirstKeys(SelectSeq(Tail(log), LAMBDA e : e[1] # k))

\* the value of the last call for key k
LastValue(log, k) ==
  log[CHOOSE i \in DOMAIN log :
        /\ log[i][1] = k
        /\ \A j \in DOMAIN log : log[j][1] = k => j <= i][2]

Rendered(k, v) == k \o "=\"" \o v \o "\""

HasPart(parts, p) == \E i \in DOMAIN parts : parts[i] = p

LastCallIs(name) == calls # <<>> /\ calls[Len(calls)][1] = name

\* C9: build() renders each distinct key of the setAttribute calls made on a
\* tag exactly once, with the value of the last call for that key, the keys
\* in the order of their first insertion.
C9_BuildRendersEachKeyOnce ==
  LET keys == FirstKeys(tag.log)
      expected == <<"<" \o tag.tagName>>
                    \o [i \in DOMAIN keys |->
                          Rendered(keys[i], LastValue(tag.log, keys[i]))]
                    \o <<">">>
  IN /\ buildParts(tag) = expected
     /\ build(tag) = Join(expected, " ")
     /\ LastCallIs("build") => out = Join(expected, " ")

\* a build() after a key was overwritten by a later call, with another key
\* inserted in between
C9_Witness ==
  /\ tag.tagName = "div"
  /\ LastCallIs("build")
  /\ Len(tag.log) = 3
  /\ tag.log[1][1] = tag.log[3][1]
  /\ tag.log[1][1] # tag.log[2][1]
  /\ tag.log[1][2] # tag.log[3][2]

\* C1: whatever was called on an Img, the string returned by toString() holds
\* a src attribute with the builder's source path and an alt attribute with
\* its alt text, beside loading, decoding and style.
C1_ImgToStringHasSrcAndAlt ==
  (tag.tagName = "img" /\ LastCallIs("toString")) =>
    /\ HasPart(outParts, Rendered("src", tag.src))
    /\ HasPart(outParts, Rendered("alt", tag.alt))
    /\ \E v \in ImgLoading : HasPart(outParts, Rendered("loading", v))
    /\ \E v \in ImgDecoding : HasPart(outParts, Rendered("decoding", v))
    /\ \E i \in DOMAIN tag.map :
         tag.map[i][1] = "style" /\ HasPart(outParts, Rendered("style", tag.map[i][2]))

\* the spec's example: type image/webp, two srcsets, max-width 640, toString
C6_ExampleCalls ==
  /\ tag.tagName = "source"
  /\ tag.type = "image/webp"
  /\ calls = << <<"addSrcsets", <<"a.webp 240w", "b.webp 640w">> >>,
                <<"setMaxWidth", "640">>,
                <<"toString", "">> >>

\* C6 as stated: the example serializes with no space before the closing >.
C6_Original ==
  C6_ExampleCalls =>
    out = "<source type=\"image/webp\" sizes=\"(max-width: 640px) 100vw, 640px\" srcset=\"a.webp 240w, b.webp 640w\">"

\* index of the first call of a method, 0 when it was never called
FirstCall(name) ==
  IF \E i \in DOMAIN calls : calls[i][1] = name
    THEN CHOOSE i \in DOMAIN calls :
           calls[i][1] = name /\ \A j \in 1..(i - 1) : calls[j][1] # name
    ELSE 0

\* argument of the last call of a method that was called
LastArg(name) ==
  calls[CHOOSE i \in DOMAIN calls :
          calls[i][1] = name /\ \A j \in (i + 1)..Len(calls) : calls[j][1] # name][2]

\* C6 (amended): the example serializes to the same text with one space
\* before the closing >; and whenever setMaxWidth was called before the first
\* toString(), toString() returns the tag name, then type, sizes and srcset
\* in that order, each after one space, then a space and the closing >.
C6_SourceSerialization ==
  /\ C6_ExampleCalls =>
       out = "<source type=\"image/webp\" sizes=\"(max-width: 640px) 100vw, 640px\" srcset=\"a.webp 240w, b.webp 640w\" >"
  /\ ( /\ tag.tagName = "source"
       /\ LastCallIs("toString")
       /\ FirstCall("setMaxWidth") # 0
       /\ FirstCall("setMaxWidth") < FirstCall("toString") ) =>
       out = "<source type=\"" \o tag.type
               \o "\" sizes=\"(max-width: " \o LastArg("setMaxWidth")
               \o "px) 100vw, " \o LastArg("setMaxWidth")
               \o "px\" srcset=\"" \o Join(tag.srcset, ", ") \o "\" >"

C6_Witness ==
  /\ C6_ExampleCalls
  /\ out # ""

\* ------------------------------------------------------ claims on the run
HtmlWritten == htmlFilePath \in files

Rejected(i) == tasks[i].status = "rejected"

\* C3: the HTML file is written only if the directory check, every
\* generation task, the copy of the original and (when asked for) the LQIP
\* all succeeded; if any of them failed no HTML file is written.
C3_HtmlOnlyAfterEverySuccess ==
  /\ HtmlWritten =>
       /\ html # ""
       /\ steps.dir = "ok"
       /\ tasks # <<>>
       /\ \A i \in DOMAIN tasks : tasks[i].status = "fulfilled"
       /\ steps.copy = "ok"
       /\ argv.LQIP => steps.lqip = "ok"
  /\ ( \/ steps.dir \in {"error", "threw"}
       \/ \E i \in DOMAIN tasks : Rejected(i)
       \/ steps.copy = "failed"
       \/ steps.lqip = "failed" ) => (~HtmlWritten /\ html = "")

C3_Witness ==
  /\ HtmlWritten
  /\ argv.LQIP
  /\ Len(tasks) = 4

\* C4: the tasks of the whole matrix are launched together, nothing after
\* the join happens while a task is pending, and a pending task can settle
\* whatever became of its siblings.
C4_JoinWaitsForEveryTask ==
  /\ tasks = <<>> \/ Len(tasks) = Len(argv.formats) * Len(argv.sizes)
  /\ (tasks # <<>> /\ pc # "await") =>
       \A i \in DOMAIN tasks : tasks[i].status # "pending"
  /\ (\E i \in DOMAIN tasks : tasks[i].status = "pending") =>
       /\ pc = "await"
       /\ sources = <<>> /\ img = NoTag /\ html = "" /\ ret.kind = "pending"
       /\ steps.copy = "none" /\ steps.lqip = "none"
  /\ \A i \in DOMAIN tasks :
       tasks[i].status = "pending" =>
         /\ ENABLED TaskSettle(i, TRUE, "")
         /\ \A e \in EngineErrors : ENABLED TaskSettle(i, FALSE, e)

\* a sibling failed first and a task is still pending
C4_Witness ==
  /\ Len(tasks) = 4
  /\ \E i, j \in DOMAIN tasks : Rejected(i) /\ tasks[j].status = "pending"

\* C5: the error returned for a failed task names that task's output path
\* (which holds its format and size) and the cause.
C5_ErrorNamesFailingTask ==
  (ret.kind = "error" /\ ret.from = "task") =>
    \E i \in DOMAIN tasks :
      /\ Rejected(i)
      /\ HasPart(ret.parts, tasks[i].outPath)
      /\ HasPart(ret.parts, tasks[i].error)

\* C2: the command exits non-zero with a message when the output path is not
\* a directory or a task failed, and exits zero only when the HTML file was
\* written.
C2_ExitReportsFailure ==
  exit.done =>
    /\ (fsOut0 = "file" \/ \E i \in DOMAIN tasks : Rejected(i)) =>
         (exit.code # 0 /\ exit.message # "")
    /\ exit.code = 0 => HtmlWritten

\* C8: after step 1 an existing directory lets the run proceed, a missing
\* path was created and the run proceeds, and a path that is not a directory
\* made the run fail with an error before any task was launched.
C8_OutputDirEnsured ==
  pc # "start" =>
    /\ fsOut0 = "dir" => (steps.dir = "ok" /\ tasks # <<>>)
    /\ fsOut0 = "missing" => (fsOut = "dir" /\ steps.dir = "ok" /\ tasks # <<>>)
    /\ fsOut0 = "file" =>
         (tasks = <<>> /\ ret.kind = "error" /\ ret.message # "")

\* C10: no two tasks that run at the same time write the same output path.
C10_ConcurrentTasksWriteDistinctPaths ==
  \A i, j \in DOMAIN tasks :
    (i # j /\ tasks[i].status = "pending" /\ tasks[j].status = "pending")
      => tasks[i].outPath # tasks[j].outPath

RECURSIVE Distinct(_)
\* the entries of a sequence, each once, in the order of first appearance
Distinct(q) ==
  IF q = <<>> THEN <<>>
  ELSE <<q[1]>> \o Distinct(SelectSeq(Tail(q), LAMBDA x : x # q[1]))

RECURSIVE Repeat(_, _)
Repeat(q, n) == IF n = 0 THEN <<>> ELSE q \o Repeat(q, n - 1)

Occurrences(q, x) == Cardinality({i \in DOMAIN q : q[i] = x})

\* the descriptors of format f, one per requested size, in the order of
\* the sizes list
DescriptorsOf(f) ==
  [j \in DOMAIN argv.sizes |->
     argv.output \o "/" \o argv.image.name \o "-"
       \o NumToString(ParseInt(argv.sizes[j])) \o "." \o f
       \o " " \o NumToString(ParseInt(argv.sizes[j])) \o "w"]

\* C7: whatever the order in which the tasks completed, a successful run has
\* one source per distinct MIME type, by descending priority of the formats,
\* and the srcset of each lists its variants in the order of the sizes list.
C7_SourcesFollowSubmissionOrder ==
  HtmlWritten =>
    LET fmts == Distinct(argv.formats)
    IN /\ Len(sources) = Len(fmts)
       /\ \A k \in DOMAIN sources :
            /\ sources[k].type = "image/" \o fmts[k]
            /\ sources[k].srcset =
                 Repeat(DescriptorsOf(fmts[k]), Occurrences(argv.formats, fmts[k]))
       /\ \A k, l \in DOMAIN fmts : k < l => levels(fmts[k]) >= levels(fmts[l])
       /\ html = "<picture>"
                   \o Join([k \in DOMAIN fmts |->
                              "<source type=\"image/" \o fmts[k] \o "\" sizes=\"(max-width: "
                                \o CharsToString(argv.sizes[Len(argv.sizes)])
                                \o "px) 100vw, "
                                \o CharsToString(argv.sizes[Len(argv.sizes)])
                                \o "px\" srcset=\""
                                \o Join(Repeat(DescriptorsOf(fmts[k]),
                                               Occurrences(argv.formats, fmts[k])), ", ")
                                \o "\" >"], "")
                   \o ImgToString(img) \o "</picture>"

\* two formats and two sizes, the tasks completing in the reverse of the
\* order they were submitted in
C7_Witness ==
  /\ HtmlWritten
  /\ argv.formats = <<"avif", "jpg">>
  /\ argv.sizes = << <<"1", "0", "0">>, <<"2", "0", "0">> >>
  /\ completion = <<4, 3, 2, 1>>

====
